---------------------------- MODULE Spec2Model ----------------------------
(***************************************************************************)
(* Model of scripts/metrics/analyze-logs.py, the CloudFront log analyzer.  *)
(*                                                                         *)
(* A Python str is a sequence of one-character strings, so that strip,     *)
(* split, startswith, the regular expressions and the lexical comparison   *)
(* of dates are computed character by character.  None is the empty        *)
(* tuple; an optional integer n is <<n>>.  A dict, which keeps insertion   *)
(* order, is a sequence of <<key, value>> pairs; a dict with fixed keys is *)
(* a record.                                                               *)
(***************************************************************************)
EXTENDS Integers, Sequences, FiniteSets, TLC

VARIABLES
    pc,           \* position of the run
    line,         \* parse_log_line: its argument
    parsed,       \* parse_log_line: its result
    record,       \* get_visitor_id: its argument
    visitor,      \* get_visitor_id: its result
    entries,      \* load_logs: the directory entries, in glob order
    days,         \* load_logs: the day-count window, None or <<N>>
    today,        \* datetime.now(), as a day number
    cutoff_date,  \* load_logs: cutoff_date
    file_idx,     \* load_logs: index of the entry being processed
    line_idx,     \* load_logs: number of lines read from the open file
    records,      \* load_logs: records / analyze_logs: its argument
    warnings,     \* indexes of the entries reported on stderr
    fmt,          \* main: args.format
    metrics,      \* main: metrics
    output        \* main: output

vars == <<pc, line, parsed, record, visitor, entries, days, today,
          cutoff_date, file_idx, line_idx, records, warnings, fmt,
          metrics, output>>

-----------------------------------------------------------------------------
(* Bounds *)

MaxFields == 12     \* longest short line, in tab-separated fields
MaxIdLen == 2       \* longest id body of a generated cookie
MaxEntries == 2     \* directory entries of a load
MaxDays == 2        \* largest day-count window
MaxRecords == 3     \* records given to analyze_logs
NumPaths == 16      \* distinct paths of the top-pages runs
MaxRepeats == 1     \* repeated paths of the top-pages runs

-----------------------------------------------------------------------------
(* Python values *)

None == <<>>

Truthy(x) == x # <<>>

Min(a, b) == IF a < b THEN a ELSE b

Digit == <<"0", "1", "2", "3", "4", "5", "6", "7", "8", "9">>

UpperChars == <<"A", "B", "C", "D", "E", "F", "G", "H", "I", "J", "K", "L", "M",
                "N", "O", "P", "Q", "R", "S", "T", "U", "V", "W", "X", "Y", "Z">>

LowerChars == <<"a", "b", "c", "d", "e", "f", "g", "h", "i", "j", "k", "l", "m",
                "n", "o", "p", "q", "r", "s", "t", "u", "v", "w", "x", "y", "z">>

\* code point of a character
Code(c) ==
    CASE c = "\t" -> 9
      [] c = "\n" -> 10
      [] c = "\r" -> 13
      [] c = " " -> 32
      [] c = "#" -> 35
      [] c = "-" -> 45
      [] c = "." -> 46
      [] c = "/" -> 47
      [] c = ":" -> 58
      [] c = ";" -> 59
      [] c = "=" -> 61
      [] c = "_" -> 95
      [] \E i \in 1..10 : Digit[i] = c -> 47 + (CHOOSE i \in 1..10 : Digit[i] = c)
      [] \E i \in 1..26 : UpperChars[i] = c -> 64 + (CHOOSE i \in 1..26 : UpperChars[i] = c)
      [] \E i \in 1..26 : LowerChars[i] = c -> 96 + (CHOOSE i \in 1..26 : LowerChars[i] = c)

\* str < str: lexicographic by code point
RECURSIVE StrLess(_, _)
StrLess(s, t) ==
    IF t = <<>> THEN FALSE
    ELSE IF s = <<>> THEN TRUE
    ELSE IF Head(s) = Head(t) THEN StrLess(Tail(s), Tail(t))
    ELSE Code(Head(s)) < Code(Head(t))

\* str.lower()
Lower(s) ==
    [i \in 1..Len(s) |->
        IF \E k \in 1..26 : UpperChars[k] = s[i]
        THEN LowerChars[CHOOSE k \in 1..26 : UpperChars[k] = s[i]]
        ELSE s[i]]

\* str.startswith(prefix)
StartsWith(s, prefix) ==
    /\ Len(prefix) <= Len(s)
    /\ SubSeq(s, 1, Len(prefix)) = prefix

EndsWith(s, suffix) ==
    /\ Len(suffix) <= Len(s)
    /\ SubSeq(s, Len(s) - Len(suffix) + 1, Len(s)) = suffix

\* sub in s
Contains(s, sub) ==
    \E i \in 1..(Len(s) - Len(sub) + 1) : SubSeq(s, i, i + Len(sub) - 1) = sub

\* the whitespace of the lines generated here; str.strip() also removes the
\* vertical tab, the form feed and the separators \x1c-\x1f
Whitespace == {" ", "\t", "\n", "\r"}

RECURSIVE LStrip(_)
LStrip(s) ==
    IF s # <<>> /\ Head(s) \in Whitespace THEN LStrip(Tail(s)) ELSE s

RECURSIVE RStrip(_)
RStrip(s) ==
    IF s # <<>> /\ s[Len(s)] \in Whitespace
    THEN RStrip(SubSeq(s, 1, Len(s) - 1))
    ELSE s

\* str.strip()
Strip(s) == RStrip(LStrip(s))

\* str.split(sep) for a one-character sep: always at least one part
RECURSIVE Split(_, _)
Split(s, sep) ==
    IF \A i \in 1..Len(s) : s[i] # sep THEN <<s>>
    ELSE LET i == CHOOSE j \in 1..Len(s) :
                      /\ s[j] = sep
                      /\ \A k \in 1..(j - 1) : s[k] # sep
         IN  <<SubSeq(s, 1, i - 1)>> \o Split(SubSeq(s, i + 1, Len(s)), sep)

\* sep.join(parts)
RECURSIVE Join(_, _)
Join(parts, sep) ==
    IF parts = <<>> THEN <<>>
    ELSE IF Len(parts) = 1 THEN parts[1]
    ELSE parts[1] \o <<sep>> \o Join(Tail(parts), sep)

\* str(n) for n >= 0
RECURSIVE Decimal(_)
Decimal(n) ==
    IF n < 10 THEN <<Digit[n + 1]>>
    ELSE Decimal(n \div 10) \o <<Digit[(n % 10) + 1]>>

\* the elements of a sequence
Range(s) == {s[i] : i \in 1..Len(s)}

-----------------------------------------------------------------------------
(* parse_log_line *)

FIELDS == <<
    "date", "time", "edge_location", "bytes", "client_ip", "method", "host",
    "uri_stem", "status", "referer", "user_agent", "query_string", "cookie",
    "edge_result_type", "request_id", "host_header", "protocol", "cs_bytes",
    "time_taken", "forwarded_for", "ssl_protocol", "ssl_cipher",
    "edge_response_result_type", "protocol_version", "fle_status",
    "fle_encrypted_fields", "c_port", "time_to_first_byte",
    "edge_detailed_result_type", "content_type", "content_len",
    "range_start", "range_end" >>

MIN_PARTS == 10

FieldIndex(name) == CHOOSE i \in 1..Len(FIELDS) : FIELDS[i] = name

\* line.strip().split('\t')
Parts(ln) == Split(Strip(ln), "\t")

parse_log_line(ln) ==
    IF StartsWith(ln, <<"#">>) THEN None
    ELSE LET parts == Parts(ln)
         IN  IF Len(parts) < MIN_PARTS THEN None
             ELSE [name \in Range(FIELDS) |->
                      IF FieldIndex(name) <= Len(parts)
                      THEN parts[FieldIndex(name)]
                      ELSE <<>>]

-----------------------------------------------------------------------------
(* get_visitor_id *)

\* a class that takes every lowercase letter
ID_CLASS_alnum ==
    {LowerChars[i] : i \in 1..26} \cup {"-"} \cup {Digit[i] : i \in 1..10}

\* the character class [a-f0-9-]
ID_CLASS == {"a", "b", "c", "d", "e", "f", "-"} \cup Range(Digit)

\* the longest prefix of s made of characters of class: a greedy [class]*
RECURSIVE Run(_, _)
Run(s, class) ==
    IF s # <<>> /\ Head(s) \in class
    THEN <<Head(s)>> \o Run(Tail(s), class)
    ELSE <<>>

MID_EQ == <<"m", "i", "d", "=">>

\* re.search(r'mid=([a-f0-9-]+)', s): None, or <<group(1)>> of the leftmost
\* match
RECURSIVE search_mid(_)
search_mid(s) ==
    IF s = <<>> THEN None
    ELSE IF /\ StartsWith(s, MID_EQ)
            /\ Run(SubSeq(s, 5, Len(s)), ID_CLASS) # <<>>
         THEN <<Run(SubSeq(s, 5, Len(s)), ID_CLASS)>>
         ELSE search_mid(Tail(s))

\* match.group(0) in the place of match.group(1)
get_visitor_id_group0(r) ==
    LET match == search_mid(r["cookie"])
    IN  IF Truthy(match) THEN MID_EQ \o match[1] ELSE r["client_ip"]

\* a fall back to the cookie in the place of the client address
get_visitor_id_cookie(r) ==
    LET match == search_mid(r["cookie"])
    IN  IF Truthy(match) THEN match[1] ELSE r["cookie"]

get_visitor_id(r) ==
    LET cookie == r["cookie"]
        match == search_mid(cookie)
    IN  IF Truthy(match) THEN match[1] ELSE r["client_ip"]

-----------------------------------------------------------------------------
(* the cutoff date of load_logs *)

IsLeap(y) == (y % 4 = 0 /\ y % 100 # 0) \/ y % 400 = 0

DaysInYear(y) == IF IsLeap(y) THEN 366 ELSE 365

DaysInMonth(y, m) ==
    IF m = 2 THEN (IF IsLeap(y) THEN 29 ELSE 28)
    ELSE IF m \in {4, 6, 9, 11} THEN 30 ELSE 31

\* the calendar date of day number n counted from 1 January of year y
RECURSIVE DateFrom(_, _, _)
DateFrom(y, m, n) ==
    IF n >= DaysInYear(y) /\ m = 1 THEN DateFrom(y + 1, 1, n - DaysInYear(y))
    ELSE IF n >= DaysInMonth(y, m) THEN DateFrom(y, m + 1, n - DaysInMonth(y, m))
    ELSE [year |-> y, month |-> m, day |-> n + 1]

\* a number in at least w digits, zero-padded (%Y is 4 wide, %m and %d 2)
RECURSIVE ZeroPad(_, _)
ZeroPad(s, w) == IF Len(s) < w THEN ZeroPad(<<"0">> \o s, w) ELSE s

\* date.strftime('%Y-%m-%d'), a date being a day number from 2023-01-01
strftime_ymd(n) ==
    LET d == DateFrom(2023, 1, n)
    IN  ZeroPad(Decimal(d.year), 4) \o <<"-">> \o ZeroPad(Decimal(d.month), 2)
            \o <<"-">> \o ZeroPad(Decimal(d.day), 2)

\* lines 61-63: the window counts only when it is truthy
cutoff_of(window, now) ==
    IF window # None /\ window[1] # 0
    THEN strftime_ymd(now - window[1])
    ELSE None

\* lines 77-80: is an accepted record appended?
keeps(cutoff, r) == ~ (Truthy(cutoff) /\ StrLess(r["date"], cutoff))

-----------------------------------------------------------------------------
(* analyze_logs *)

\* set(get_visitor_id(r) for r in seq)
visitors_of(seq) == {get_visitor_id(seq[i]) : i \in 1..Len(seq)}

\* r['status'].startswith(('2', '3'))
is_successful(r) ==
    StartsWith(r["status"], <<"2">>) \/ StartsWith(r["status"], <<"3">>)

S_index_html == <<"/", "i", "n", "d", "e", "x", ".", "h", "t", "m", "l">>

\* r['uri_stem'] in ('/', '/index.html')
is_homepage(r) == r["uri_stem"] \in {<<"/">>, S_index_html}

\* what $ accepts: the end of the string, or a newline that ends the string
AtEnd(s) == s = <<>> \/ s = <<"\n">>

S_event == <<"/", "e", "v", "e", "n", "t">>

\* re.compile(r'^/events?/[a-f0-9-]+$').match(s)
event_pattern_match(s) ==
    /\ StartsWith(s, S_event)
    /\ LET rest == SubSeq(s, Len(S_event) + 1, Len(s))
           after_s == IF StartsWith(rest, <<"s">>) THEN Tail(rest) ELSE rest
       IN  /\ StartsWith(after_s, <<"/">>)
           /\ LET id == Run(Tail(after_s), ID_CLASS)
              IN  /\ id # <<>>
                  /\ AtEnd(SubSeq(after_s, Len(id) + 2, Len(after_s)))

is_event_page(r) == event_pattern_match(r["uri_stem"])

S_api == <<"/", "a", "p", "i", "/">>

S_api_events == S_api \o <<"e", "v", "e", "n", "t", "s">>

S_api_geocode == S_api_events \o <<"/", "g", "e", "o", "c", "o", "d", "e">>

is_api_call(r) == StartsWith(r["uri_stem"], S_api)

is_calendar_api(r) == r["uri_stem"] = S_api_events

is_geocode_api(r) == StartsWith(r["uri_stem"], S_api_geocode)

S_visit == <<"/", "v", "i", "s", "i", "t">>

S_register == <<"/", "r", "e", "g", "i", "s", "t", "e", "r">>

\* re.compile(r'/(visit|register)$').search(s)
visit_pattern_search(s) ==
    \E i \in 1..Len(s) :
        \E word \in {S_visit, S_register} :
            /\ StartsWith(SubSeq(s, i, Len(s)), word)
            /\ AtEnd(SubSeq(s, i + Len(word), Len(s)))

is_visit_click(r) == visit_pattern_search(r["uri_stem"])

\* the index of key in a dict, 0 when it is absent
KeyIndex(dict, key) ==
    IF \E i \in 1..Len(dict) : dict[i][1] = key
    THEN CHOOSE i \in 1..Len(dict) : dict[i][1] = key
    ELSE 0

\* counts[key] = 1 in the place of counts[key] += 1
RECURSIVE count_keys_reset(_, _)
count_keys_reset(keys, counts) ==
    IF keys = <<>> THEN counts
    ELSE LET i == KeyIndex(counts, Head(keys))
         IN  count_keys_reset(Tail(keys),
                 IF i = 0 THEN Append(counts, <<Head(keys), 1>>)
                 ELSE [counts EXCEPT ![i] = <<Head(keys), 1>>])

\* defaultdict(int): counts[key] += 1 for every key of keys, in order
RECURSIVE count_keys(_, _)
count_keys(keys, counts) ==
    IF keys = <<>> THEN counts
    ELSE LET i == KeyIndex(counts, Head(keys))
         IN  count_keys(Tail(keys),
                 IF i = 0 THEN Append(counts, <<Head(keys), 1>>)
                 ELSE [counts EXCEPT ![i] = <<Head(keys), counts[i][2] + 1>>])

\* x goes before the items of the same count: the sort is not stable
insert_desc_unstable(sorted, x) ==
    LET n == Cardinality({i \in 1..Len(sorted) : sorted[i][2] > x[2]})
    IN  SubSeq(sorted, 1, n) \o <<x>> \o SubSeq(sorted, n + 1, Len(sorted))

\* x goes behind every item whose count is not smaller: a stable insertion
insert_desc(sorted, x) ==
    LET n == Cardinality({i \in 1..Len(sorted) : sorted[i][2] >= x[2]})
    IN  SubSeq(sorted, 1, n) \o <<x>> \o SubSeq(sorted, n + 1, Len(sorted))

\* sorted(items, key=lambda x: -x[1]); the sort is stable
RECURSIVE sorted_desc_from(_, _)
sorted_desc_from(items, sorted) ==
    IF items = <<>> THEN sorted
    ELSE sorted_desc_from(Tail(items), insert_desc(sorted, Head(items)))

sorted_desc(items) == sorted_desc_from(items, <<>>)

\* items[:n]
Take(items, n) == SubSeq(items, 1, Min(n, Len(items)))

\* items[-n:]
Last(items, n) ==
    SubSeq(items, IF Len(items) > n THEN Len(items) - n + 1 ELSE 1, Len(items))

TOP_PAGES == 15

TOP_EDGES == 10

\* lines 129-132
top_pages_of(recs) ==
    Take(sorted_desc(count_keys([i \in 1..Len(recs) |-> recs[i]["uri_stem"]], <<>>)),
         TOP_PAGES)

\* lines 135-138
top_edges_of(recs) ==
    Take(sorted_desc(count_keys([i \in 1..Len(recs) |-> recs[i]["edge_location"]], <<>>)),
         TOP_EDGES)

\* lines 118-121: the dates in first-encountered order
daily_traffic_of(recs) ==
    LET dates == count_keys([i \in 1..Len(recs) |-> recs[i]["date"]], <<>>)
    IN  [k \in 1..Len(dates) |->
            <<dates[k][1],
              [requests |-> dates[k][2],
               visitors |-> {get_visitor_id(recs[i]) :
                               i \in {j \in 1..Len(recs) :
                                        recs[j]["date"] = dates[k][1]}}]>>]

\* sorted(daily_traffic.items()): the keys are distinct, so by ascending date
RECURSIVE sorted_by_date(_)
sorted_by_date(items) ==
    IF items = <<>> THEN <<>>
    ELSE LET m == CHOOSE i \in 1..Len(items) :
                      \A j \in 1..Len(items) :
                          j = i \/ StrLess(items[i][1], items[j][1])
             rest == [k \in 1..(Len(items) - 1) |->
                         IF k < m THEN items[k] ELSE items[k + 1]]
         IN  <<items[m]>> \o sorted_by_date(rest)

\* lines 123-126
daily_stats_of(recs) ==
    LET items == sorted_by_date(daily_traffic_of(recs))
    IN  [k \in 1..Len(items) |->
            <<items[k][1],
              [requests |-> items[k][2].requests,
               unique_visitors |-> Cardinality(items[k][2].visitors)]>>]

S_Chrome == <<"C", "h", "r", "o", "m", "e">>

S_Firefox == <<"F", "i", "r", "e", "f", "o", "x">>

S_Safari == <<"S", "a", "f", "a", "r", "i">>

S_Edge == <<"E", "d", "g", "e">>

S_bot == <<"b", "o", "t">>

S_crawler == <<"c", "r", "a", "w", "l", "e", "r">>

\* Safari tested before Chrome
browser_of_safari_first(ua) ==
    IF Contains(ua, S_Safari) THEN "Safari"
    ELSE IF Contains(ua, S_Chrome) THEN "Chrome"
    ELSE IF Contains(ua, S_Firefox) THEN "Firefox"
    ELSE IF Contains(ua, S_Edge) THEN "Edge"
    ELSE IF Contains(Lower(ua), S_bot) \/ Contains(Lower(ua), S_crawler) THEN "Bot"
    ELSE "Other"

\* lines 143-155
browser_of(ua) ==
    IF Contains(ua, S_Chrome) THEN "Chrome"
    ELSE IF Contains(ua, S_Firefox) THEN "Firefox"
    ELSE IF Contains(ua, S_Safari) /\ ~ Contains(ua, S_Chrome) THEN "Safari"
    ELSE IF Contains(ua, S_Edge) THEN "Edge"
    ELSE IF Contains(Lower(ua), S_bot) \/ Contains(Lower(ua), S_crawler) THEN "Bot"
    ELSE "Other"

\* lines 141-157
browsers_of(recs) ==
    sorted_desc(count_keys([i \in 1..Len(recs) |-> browser_of(recs[i]["user_agent"])],
                           <<>>))

\* min(...): the first of the smallest items
RECURSIVE min_from(_, _)
min_from(best, items) ==
    IF items = <<>> THEN best
    ELSE min_from(IF StrLess(Head(items), best) THEN Head(items) ELSE best,
                  Tail(items))

\* max(...): the first of the largest items
RECURSIVE max_from(_, _)
max_from(best, items) ==
    IF items = <<>> THEN best
    ELSE max_from(IF StrLess(best, Head(items)) THEN Head(items) ELSE best,
                  Tail(items))

\* min(r['date'] for r in records)
min_date(recs) ==
    min_from(recs[1]["date"], [i \in 1..(Len(recs) - 1) |-> recs[i + 1]["date"]])

\* max(r['date'] for r in records)
max_date(recs) ==
    max_from(recs[1]["date"], [i \in 1..(Len(recs) - 1) |-> recs[i + 1]["date"]])

analyze_logs(recs) ==
    IF recs = <<>> THEN [error |-> "No log records found"]
    ELSE
    LET homepage == SelectSeq(recs, is_homepage)
        event_pages == SelectSeq(recs, is_event_page)
        api_calls == SelectSeq(recs, is_api_call)
        visit_clicks == SelectSeq(recs, is_visit_click)
    IN  [summary |->
            [total_requests |-> Len(recs),
             unique_visitors |-> Cardinality(visitors_of(recs)),
             successful_requests |-> Len(SelectSeq(recs, is_successful)),
             date_range |-> [start |-> min_date(recs), end |-> max_date(recs)]],
         page_views |->
            [homepage |-> [total |-> Len(homepage),
                           unique |-> Cardinality(visitors_of(homepage))],
             event_details |-> [total |-> Len(event_pages),
                                unique |-> Cardinality(visitors_of(event_pages))],
             unique_events_viewed |->
                 Cardinality({event_pages[i]["uri_stem"] : i \in 1..Len(event_pages)})],
         api_usage |->
            [total_api_calls |-> Len(api_calls),
             calendar_requests |-> Len(SelectSeq(api_calls, is_calendar_api)),
             location_searches |-> Len(SelectSeq(api_calls, is_geocode_api))],
         external_clicks |->
            [visit_store_clicks |-> [total |-> Len(visit_clicks),
                                     unique |-> Cardinality(visitors_of(visit_clicks))],
             note |-> IF visit_clicks = <<>>
                      THEN <<"Requires /visit tracking endpoint">>
                      ELSE None],
         daily_stats |-> daily_stats_of(recs),
         top_pages |-> LET top == top_pages_of(recs)
                       IN  [i \in 1..Len(top) |->
                               [path |-> top[i][1], count |-> top[i][2]]],
         top_edge_locations |-> LET top == top_edges_of(recs)
                                IN  [i \in 1..Len(top) |->
                                        [location |-> top[i][1], count |-> top[i][2]]],
         browsers |-> browsers_of(recs)]

-----------------------------------------------------------------------------
(* format_table and the rendering of main *)

\* a report is rendered to the values its lines show, section by section;
\* a KeyError is the record [raised |-> "KeyError"]
format_table(m) ==
    IF "summary" \notin DOMAIN m THEN [raised |-> "KeyError"]
    ELSE LET s == m.summary
             pv == m.page_views
             api == m.api_usage
             ec == m.external_clicks
         IN  [date_range |-> <<s.date_range.start, s.date_range.end>>,
              traffic |-> <<s.total_requests, s.unique_visitors,
                            s.successful_requests>>,
              page_views |-> <<pv.homepage.total, pv.homepage.unique,
                               pv.event_details.total, pv.event_details.unique,
                               pv.unique_events_viewed>>,
              api_usage |-> <<api.total_api_calls, api.calendar_requests,
                              api.location_searches>>,
              external_clicks |->
                  IF Truthy(ec.note) THEN ec.note
                  ELSE <<ec.visit_store_clicks.total, ec.visit_store_clicks.unique>>,
              top_pages |-> Take(m.top_pages, 10),
              daily_traffic |-> Last(m.daily_stats, 14),
              browsers |-> m.browsers]

\* json.dumps(metrics, indent=2, default=str): every report serializes
json_dumps(m) == [json |-> m]

Raised(out) == "raised" \in DOMAIN out

-----------------------------------------------------------------------------
(* Inputs *)

D_0228 == <<"2", "0", "2", "4", "-", "0", "2", "-", "2", "8">>

D_0229 == <<"2", "0", "2", "4", "-", "0", "2", "-", "2", "9">>

IP_A == <<"1", "0", ".", "0", ".", "0", ".", "1">>

IP_B == <<"1", "0", ".", "0", ".", "0", ".", "2">>

IP_C == <<"1", "0", ".", "0", ".", "0", ".", "3">>

IP_1234 == <<"1", ".", "2", ".", "3", ".", "4">>

DASH == <<"-">>

S_200 == <<"2", "0", "0">>

S_304 == <<"3", "0", "4">>

S_404 == <<"4", "0", "4">>

S_events_ab12 == <<"/", "e", "v", "e", "n", "t", "s", "/", "a", "b", "1", "2">>

\* a log line of 13 fields, the unused ones being "-"
MkLine(date, edge, ip, uri, status, ua, cookie) ==
    Join(<<date, DASH, edge, DASH, ip, DASH, DASH, uri, status, DASH, ua, DASH,
           cookie>>, "\t") \o <<"\n">>

-----------------------------------------------------------------------------
(* parse_log_line applied to one line *)

\* the values of the first two and the last two fields of a generated line
EdgeFields == {<<>>, <<" ">>, <<"#">>, <<"a">>}

\* the value of a field in the middle of a generated line
MiddleField(i) == <<"f">> \o Decimal(i)

FieldCounts ==
    ((MIN_PARTS - 2)..MaxFields) \cup {Len(FIELDS), Len(FIELDS) + 1}

LinesOf(n) ==
    {[i \in 1..n |->
        IF i <= 2 THEN e[i]
        ELSE IF i >= n - 1 THEN e[i - n + 4]
        ELSE MiddleField(i)] : e \in [1..4 -> EdgeFields]}

ParseLines ==
    UNION {{Join(fs, "\t") \o nl : fs \in LinesOf(n), nl \in {<<>>, <<"\n">>}} :
             n \in FieldCounts}

ParserIdle == line = <<>> /\ parsed = None

ResolverIdle == record = None /\ visitor = None

LoaderIdle ==
    /\ entries = <<>>
    /\ days = None
    /\ today = 0
    /\ cutoff_date = None
    /\ file_idx = 0
    /\ line_idx = 0
    /\ warnings = <<>>

MainIdle == records = <<>> /\ fmt = "table" /\ metrics = None /\ output = None

InitParse ==
    /\ pc = "parse"
    /\ line \in ParseLines
    /\ parsed = None
    /\ ResolverIdle
    /\ LoaderIdle
    /\ MainIdle

ParseLine ==
    /\ pc = "parse"
    /\ parsed' = parse_log_line(line)
    /\ pc' = "parsed"
    /\ UNCHANGED <<line, record, visitor, entries, days, today, cutoff_date,
                   file_idx, line_idx, records, warnings, fmt, metrics, output>>

NextParse == ParseLine

SpecParse == InitParse /\ [][NextParse]_vars

\* the tab-separated fields of a line, its line terminator left out
FieldsOfLine(ln) ==
    Split(IF EndsWith(ln, <<"\n">>) THEN SubSeq(ln, 1, Len(ln) - 1) ELSE ln, "\t")

\* C2: a line that does not start with '#' and has at least 10 tab-separated
\* fields, empty ones included, is parsed to a mapping with the 33 schema
\* keys, key i holding the i-th field of the line and the keys beyond the
\* fields of the line the empty string.
C2_FieldsByPosition ==
    (/\ pc = "parsed"
     /\ ~ StartsWith(line, <<"#">>)
     /\ Len(FieldsOfLine(line)) >= 10)
    => /\ parsed # None
       /\ DOMAIN parsed = Range(FIELDS)
       /\ \A i \in 1..Len(FIELDS) :
              parsed[FIELDS[i]] =
                  IF i <= Len(FieldsOfLine(line)) THEN FieldsOfLine(line)[i]
                  ELSE <<>>

-----------------------------------------------------------------------------
(* get_visitor_id applied to one record *)

IdChars == {"a", "F", "-", "g", "0"}

RECURSIVE StringsUpTo(_, _)
StringsUpTo(chars, n) ==
    IF n = 0 THEN {<<>>}
    ELSE LET shorter == StringsUpTo(chars, n - 1)
         IN  shorter \cup {Append(s, c) : s \in shorter, c \in chars}

CookiePrefixes == {<<>>, <<"x", "=", "1", ";">>, <<"m", "i", "d", "=", ";">>}

CookieSuffixes == {<<>>, <<";", "y">>}

Cookies ==
    {pre \o MID_EQ \o id \o suf :
        pre \in CookiePrefixes, id \in StringsUpTo(IdChars, MaxIdLen),
        suf \in CookieSuffixes}
    \cup {<<>>, DASH, <<"m", "i", "d">>, <<"M", "I", "D", "=", "a", "b">>}

VisitorRecords ==
    {parse_log_line(MkLine(D_0229, DASH, ip, <<"/">>, S_200, DASH, cookie)) :
        ip \in {IP_A, IP_B}, cookie \in Cookies}

InitVisitor ==
    /\ pc = "resolve"
    /\ record \in VisitorRecords
    /\ visitor = None
    /\ ParserIdle
    /\ LoaderIdle
    /\ MainIdle

GetVisitorId ==
    /\ pc = "resolve"
    /\ visitor' = get_visitor_id(record)
    /\ pc' = "resolved"
    /\ UNCHANGED <<line, parsed, record, entries, days, today, cutoff_date,
                   file_idx, line_idx, records, warnings, fmt, metrics, output>>

NextVisitor == GetVisitorId

SpecVisitor == InitVisitor /\ [][NextVisitor]_vars

LowerHexOrDash ==
    {"0", "1", "2", "3", "4", "5", "6", "7", "8", "9",
     "a", "b", "c", "d", "e", "f", "-"}

AnyHexOrDash == LowerHexOrDash \cup {"A", "B", "C", "D", "E", "F"}

\* the positions of s where `mid=` is followed by a character of class
MidPositions(s, class) ==
    {i \in 1..(Len(s) - 4) :
        SubSeq(s, i, i + 3) = MID_EQ /\ s[i + 4] \in class}

\* the id portion at position i: the characters of class that follow `mid=`,
\* up to the first character outside class
IdPortion(s, i, class) ==
    LET stop == CHOOSE j \in (i + 4)..(Len(s) + 1) :
                    /\ \A k \in (i + 4)..(j - 1) : s[k] \in class
                    /\ j = Len(s) + 1 \/ s[j] \notin class
    IN  SubSeq(s, i + 4, stop - 1)

\* what the resolver is said to return when ids are made of class
Resolved(r, class) ==
    LET at == MidPositions(r["cookie"], class)
    IN  IF at # {}
        THEN IdPortion(r["cookie"], CHOOSE i \in at : \A j \in at : i <= j, class)
        ELSE r["client_ip"]

\* C3 as stated: the id that follows `mid=` is returned whenever it is made
\* of hexadecimal digits (of either case) or dashes, the client address
\* otherwise.
C3_AnyHexId ==
    pc = "resolved" => visitor = Resolved(record, AnyHexOrDash)

\* C3: the id that follows the first `mid=` that is followed by lowercase
\* hexadecimal digits or dashes is returned, whatever the client address is;
\* for every other cookie the client address is returned.
C3_LowerHexId ==
    pc = "resolved" => visitor = Resolved(record, LowerHexOrDash)

\* an id was taken from a cookie that comes after other cookie text
C3_Witness ==
    /\ pc = "resolved"
    /\ MidPositions(record["cookie"], LowerHexOrDash) # {}
    /\ 1 \notin MidPositions(record["cookie"], LowerHexOrDash)
    /\ Len(visitor) = 2
    /\ visitor # record["client_ip"]

-----------------------------------------------------------------------------
(* main: load_logs, analyze_logs and the rendering *)

\* a directory entry: its name ends in .gz (gz), it is a regular file
\* (is_file), its name starts with a dot (dot); lines is its text and fail_at
\* the read that raises (1 is the open or the first read, 0 is no failure)
Readable(e) == e.gz \/ (e.is_file /\ ~ e.dot)

StartLoad ==
    /\ pc = "load"
    /\ records' = <<>>
    /\ cutoff_date' = cutoff_of(days, today)
    /\ file_idx' = 0
    /\ pc' = "glob"
    /\ UNCHANGED <<line, parsed, record, visitor, entries, days, today,
                   line_idx, warnings, fmt, metrics, output>>

\* lines 70-71: continue
SkipEntry ==
    /\ pc = "glob"
    /\ file_idx < Len(entries)
    /\ ~ Readable(entries[file_idx + 1])
    /\ file_idx' = file_idx + 1
    /\ UNCHANGED <<pc, line, parsed, record, visitor, entries, days, today,
                   cutoff_date, line_idx, records, warnings, fmt, metrics,
                   output>>

\* lines 66-69 and 73: an opener is chosen and the try block entered
OpenEntry ==
    /\ pc = "glob"
    /\ file_idx < Len(entries)
    /\ Readable(entries[file_idx + 1])
    /\ file_idx' = file_idx + 1
    /\ line_idx' = 0
    /\ pc' = "read"
    /\ UNCHANGED <<line, parsed, record, visitor, entries, days, today,
                   cutoff_date, records, warnings, fmt, metrics, output>>

\* lines 75-80: one line of the open file
ReadLine ==
    /\ pc = "read"
    /\ entries[file_idx].fail_at # line_idx + 1
    /\ line_idx < Len(entries[file_idx].lines)
    /\ LET r == parse_log_line(entries[file_idx].lines[line_idx + 1])
       IN  records' = IF Truthy(r) /\ keeps(cutoff_date, r)
                      THEN Append(records, r)
                      ELSE records
    /\ line_idx' = line_idx + 1
    /\ UNCHANGED <<pc, line, parsed, record, visitor, entries, days, today,
                   cutoff_date, file_idx, warnings, fmt, metrics, output>>

\* lines 81-82: the open or a read raises; what was appended stays
ReadError ==
    /\ pc = "read"
    /\ entries[file_idx].fail_at = line_idx + 1
    /\ warnings' = Append(warnings, file_idx)
    /\ pc' = "glob"
    /\ UNCHANGED <<line, parsed, record, visitor, entries, days, today,
                   cutoff_date, file_idx, line_idx, records, fmt, metrics,
                   output>>

EndOfFile ==
    /\ pc = "read"
    /\ entries[file_idx].fail_at # line_idx + 1
    /\ line_idx = Len(entries[file_idx].lines)
    /\ pc' = "glob"
    /\ UNCHANGED <<line, parsed, record, visitor, entries, days, today,
                   cutoff_date, file_idx, line_idx, records, warnings, fmt,
                   metrics, output>>

ReturnRecords ==
    /\ pc = "glob"
    /\ file_idx = Len(entries)
    /\ pc' = "loaded"
    /\ UNCHANGED <<line, parsed, record, visitor, entries, days, today,
                   cutoff_date, file_idx, line_idx, records, warnings, fmt,
                   metrics, output>>

Analyze ==
    /\ pc = "loaded"
    /\ metrics' = analyze_logs(records)
    /\ pc' = "analyzed"
    /\ UNCHANGED <<line, parsed, record, visitor, entries, days, today,
                   cutoff_date, file_idx, line_idx, records, warnings, fmt,
                   output>>

\* lines 272-281: an exception of the rendering ends the run
Render ==
    /\ pc = "analyzed"
    /\ output' = IF fmt = "json" THEN json_dumps(metrics) ELSE format_table(metrics)
    /\ pc' = IF Raised(output') THEN "crashed" ELSE "done"
    /\ UNCHANGED <<line, parsed, record, visitor, entries, days, today,
                   cutoff_date, file_idx, line_idx, records, warnings, fmt,
                   metrics>>

\* datetime.now() on 2024-03-01, in days from 2023-01-01
TODAY == 365 + 31 + 29

L_comment == <<"#", "v", "\n">>

L_old == MkLine(D_0228, DASH, IP_A, <<"/">>, S_200, DASH, DASH)

L_new == MkLine(D_0229, DASH, IP_B, S_api_events, S_200, DASH, DASH)

FileLines == {L_comment, L_old, L_new}

MaxLines == 2

RECURSIVE SeqsUpTo(_, _)
SeqsUpTo(S, n) ==
    IF n = 0 THEN {<<>>}
    ELSE LET shorter == SeqsUpTo(S, n - 1)
         IN  shorter \cup {Append(q, x) : q \in shorter, x \in S}

\* files that are read, a directory named *.gz whose open fails, and the
\* entries that are skipped: a dotfile and a directory
DirEntries ==
    {[gz |-> g, is_file |-> TRUE, dot |-> FALSE, lines |-> ls, fail_at |-> k] :
        g \in BOOLEAN, ls \in SeqsUpTo(FileLines, MaxLines), k \in 0..(MaxLines + 1)}
    \cup {[gz |-> TRUE, is_file |-> FALSE, dot |-> FALSE, lines |-> <<>>, fail_at |-> 1],
          [gz |-> FALSE, is_file |-> TRUE, dot |-> TRUE, lines |-> <<L_new>>, fail_at |-> 0],
          [gz |-> FALSE, is_file |-> FALSE, dot |-> FALSE, lines |-> <<>>, fail_at |-> 0]}

Windows == {None} \cup {<<n>> : n \in 0..MaxDays}

InitMain ==
    /\ pc = "load"
    /\ entries \in {es \in SeqsUpTo(DirEntries, MaxEntries) :
                       \A i \in 1..Len(es) : es[i].fail_at <= Len(es[i].lines) + 1}
    /\ days \in Windows
    /\ today = TODAY
    /\ fmt \in {"json", "table"}
    /\ cutoff_date = None
    /\ file_idx = 0
    /\ line_idx = 0
    /\ records = <<>>
    /\ warnings = <<>>
    /\ metrics = None
    /\ output = None
    /\ ParserIdle
    /\ ResolverIdle

NextMain ==
    \/ StartLoad
    \/ SkipEntry
    \/ OpenEntry
    \/ ReadLine
    \/ ReadError
    \/ EndOfFile
    \/ ReturnRecords
    \/ Analyze
    \/ Render

SpecMain == InitMain /\ [][NextMain]_vars

Loaded == pc \in {"loaded", "analyzed", "done", "crashed"}

\* the lines of an entry that the loop gets before the end or the failure
LinesRead(e) ==
    IF ~ Readable(e) THEN <<>>
    ELSE IF e.fail_at = 0 THEN e.lines
    ELSE SubSeq(e.lines, 1, e.fail_at - 1)

\* the accepted records of a sequence of lines
RECURSIVE Accepted(_)
Accepted(ls) ==
    IF ls = <<>> THEN <<>>
    ELSE (IF parse_log_line(Head(ls)) # None THEN <<parse_log_line(Head(ls))>>
          ELSE <<>>) \o Accepted(Tail(ls))

RECURSIVE Concat(_)
Concat(seqs) == IF seqs = <<>> THEN <<>> ELSE Head(seqs) \o Concat(Tail(seqs))

\* C1: when loading yields no record the run does not crash: the report
\* carries the error marker and the rendering chosen by main produces output.
C1_EmptyReportRendered ==
    (pc \in {"done", "crashed"} /\ records = <<>>)
    => /\ "error" \in DOMAIN metrics
       /\ pc = "done"
       /\ ~ Raised(output)

NotBefore(cutoff, r) == ~ StrLess(r["date"], cutoff)

\* C5: with a window of N >= 0 days an accepted record is in the result if
\* and only if its date does not precede today minus N days; with no window
\* every accepted record is kept.
C5_WindowFilters ==
    Loaded =>
        LET read == Accepted(Concat([i \in 1..Len(entries) |-> LinesRead(entries[i])]))
            InWindow(r) == NotBefore(strftime_ymd(today - days[1]), r)
        IN  records = IF days = None THEN read ELSE SelectSeq(read, InWindow)

\* C9: a failure of one file, at its open or part-way through it, is
\* isolated: the result holds the records of every other file, in
\* enumeration order, and no record of the failed file.
C9_FailedFileIsolated ==
    Loaded =>
        LET Kept(r) == keeps(cutoff_date, r)
            whole == [i \in 1..Len(entries) |->
                         IF Readable(entries[i]) /\ entries[i].fail_at = 0
                         THEN SelectSeq(Accepted(entries[i].lines), Kept)
                         ELSE <<>>]
        IN  records = Concat(whole)

-----------------------------------------------------------------------------
(* the three-line scenario: one plain file, no window *)

C_mid_u1 == <<"m", "i", "d", "=", "u", "1">>

ScenarioIps == {IP_A, IP_B, IP_C, IP_1234, <<"1", ".", "2", ".", "3", ".", "5">>}

ScenarioLines(a1, a2) ==
    <<MkLine(D_0229, DASH, a1, <<"/">>, S_200, DASH, C_mid_u1),
      MkLine(D_0229, DASH, a2, S_api_events, S_200, DASH, C_mid_u1),
      MkLine(D_0229, DASH, IP_1234, S_events_ab12, S_404, DASH, DASH)>>

ScenarioEntries(a1, a2) ==
    <<[gz |-> FALSE, is_file |-> TRUE, dot |-> FALSE,
       lines |-> ScenarioLines(a1, a2), fail_at |-> 0]>>

InitScenario ==
    /\ pc = "load"
    /\ entries \in {ScenarioEntries(a1, a2) : a1 \in ScenarioIps, a2 \in ScenarioIps}
    /\ days = None
    /\ today = TODAY
    /\ fmt \in {"json", "table"}
    /\ cutoff_date = None
    /\ file_idx = 0
    /\ line_idx = 0
    /\ records = <<>>
    /\ warnings = <<>>
    /\ metrics = None
    /\ output = None
    /\ ParserIdle
    /\ ResolverIdle

NextScenario ==
    \/ StartLoad
    \/ OpenEntry
    \/ ReadLine
    \/ EndOfFile
    \/ ReturnRecords
    \/ Analyze
    \/ Render

SpecScenario == InitScenario /\ [][NextScenario]_vars

\* the counts of the scenario that do not depend on the visitors
ScenarioCounts ==
    /\ metrics.summary.total_requests = 3
    /\ metrics.summary.successful_requests = 2
    /\ metrics.page_views.homepage.total = 1
    /\ metrics.api_usage.total_api_calls = 1
    /\ metrics.api_usage.calendar_requests = 1
    /\ metrics.page_views.event_details.total = 1
    /\ metrics.page_views.unique_events_viewed = 1

\* C4 as stated: the scenario yields unique_visitors = 2, and the other
\* counts, for every choice of the addresses of the first two lines.
C4_TwoVisitors ==
    pc \in {"analyzed", "done"}
    => /\ ScenarioCounts
       /\ metrics.summary.unique_visitors = 2

\* C4: the scenario yields total_requests=3, successful_requests=2,
\* homepage.total=1, total_api_calls=1, calendar_requests=1,
\* event_details.total=1 and unique_events_viewed=1 for every choice of the
\* addresses of the first two lines, and unique_visitors is the number of
\* distinct client addresses of the three lines (`mid=u1` holds no id).
C4_VisitorsByAddress ==
    pc \in {"analyzed", "done"}
    => /\ ScenarioCounts
       /\ \A a1, a2 \in ScenarioIps :
              entries = ScenarioEntries(a1, a2)
              => metrics.summary.unique_visitors = Cardinality({a1, a2, IP_1234})

\* the scenario was analyzed with two different addresses on its first lines
C4_Witness ==
    /\ pc = "done"
    /\ Len(records) = 3
    /\ records[1]["client_ip"] # records[2]["client_ip"]
    /\ records[1]["cookie"] = C_mid_u1
    /\ metrics.summary.unique_visitors = 3

-----------------------------------------------------------------------------
(* analyze_logs on the records of a pool *)

D_0301 == <<"2", "0", "2", "4", "-", "0", "3", "-", "0", "1">>

E_IAD == <<"I", "A", "D">>

E_LHR == <<"L", "H", "R">>

C_mid_ab1 == <<"m", "i", "d", "=", "a", "b", "-", "1">>

C_mid_AB == <<"m", "i", "d", "=", "A", "B">>

UA_chrome_safari == S_Chrome \o <<" ">> \o S_Safari

UA_safari_firefox == S_Safari \o <<" ">> \o S_Firefox

UA_googlebot == <<"G", "o", "o", "g", "l", "e", "b", "o", "t">>

UA_bot_edge == <<"B", "O", "T", " ">> \o S_Edge

UA_crawler == <<"C", "r", "a", "w", "l", "e", "r">>

UA_lower_chrome == <<"c", "h", "r", "o", "m", "e">>

S_500 == <<"5", "0", "0">>

P_store_visit == <<"/", "s", "t", "o", "r", "e">> \o S_visit

P_event_c0de == S_event \o <<"/", "c", "0", "-", "d", "e">>

P_events_XY == S_event \o <<"s", "/", "X", "Y">>

PoolLines ==
    {MkLine(D_0228, E_IAD, IP_A, <<"/">>, S_200, UA_chrome_safari, C_mid_ab1),
     MkLine(D_0229, E_IAD, IP_B, S_api_events, S_200, S_Safari, DASH),
     MkLine(D_0229, E_LHR, IP_C, S_events_ab12, S_404, UA_safari_firefox, DASH),
     MkLine(D_0228, E_LHR, IP_B, S_index_html, S_304, S_Edge, C_mid_ab1),
     MkLine(D_0229, E_IAD, IP_A, S_api_geocode, S_500, UA_googlebot, C_mid_AB),
     MkLine(D_0301, E_LHR, IP_C, P_store_visit, S_200, UA_crawler, DASH),
     MkLine(D_0228, E_IAD, IP_1234, P_event_c0de, S_200, UA_lower_chrome, DASH),
     MkLine(D_0301, E_IAD, IP_A, <<"/">>, S_200, UA_bot_edge, DASH),
     MkLine(D_0301, E_LHR, IP_B, P_events_XY, S_404, DASH, DASH)}

RecordPool == {parse_log_line(ln) : ln \in PoolLines}

InitAnalyze ==
    /\ pc = "collect"
    /\ records = <<>>
    /\ fmt \in {"json", "table"}
    /\ metrics = None
    /\ output = None
    /\ ParserIdle
    /\ ResolverIdle
    /\ LoaderIdle

\* line 80: a record of the pool is appended
LoadRecord ==
    /\ pc = "collect"
    /\ Len(records) < MaxRecords
    /\ \E r \in RecordPool : records' = Append(records, r)
    /\ UNCHANGED <<pc, line, parsed, record, visitor, entries, days, today,
                   cutoff_date, file_idx, line_idx, warnings, fmt, metrics,
                   output>>

\* line 84
ReturnCollected ==
    /\ pc = "collect"
    /\ pc' = "loaded"
    /\ UNCHANGED <<line, parsed, record, visitor, entries, days, today,
                   cutoff_date, file_idx, line_idx, records, warnings, fmt,
                   metrics, output>>

NextAnalyze ==
    \/ LoadRecord
    \/ ReturnCollected
    \/ Analyze
    \/ Render

SpecAnalyze == InitAnalyze /\ [][NextAnalyze]_vars

Analyzed == pc \in {"analyzed", "done"} /\ records # <<>>

\* the count of a key in a dict of counts, 0 for an absent key
CountOf(dict, key) ==
    IF KeyIndex(dict, key) = 0 THEN 0 ELSE dict[KeyIndex(dict, key)][2]

RECURSIVE SumCounts(_)
SumCounts(dict) ==
    IF dict = <<>> THEN 0 ELSE Head(dict)[2] + SumCounts(Tail(dict))

BrowserNames == {"Chrome", "Firefox", "Safari", "Edge", "Bot", "Other"}

\* the class of a user agent by the precedence Chrome, Firefox, Safari, Edge,
\* bot or crawler in any case, Other
InClass(ua, b) ==
    LET chrome == Contains(ua, S_Chrome)
        firefox == Contains(ua, S_Firefox)
        safari == Contains(ua, S_Safari)
        edge == Contains(ua, S_Edge)
        bot == \E i \in 1..Len(ua) : \E w \in {S_bot, S_crawler} :
                   /\ i + Len(w) - 1 <= Len(ua)
                   /\ \A k \in 1..Len(w) : Lower(<<ua[i + k - 1]>>) = <<w[k]>>
    IN  CASE b = "Chrome" -> chrome
          [] b = "Firefox" -> ~ chrome /\ firefox
          [] b = "Safari" -> ~ chrome /\ ~ firefox /\ safari
          [] b = "Edge" -> ~ chrome /\ ~ firefox /\ ~ safari /\ edge
          [] b = "Bot" -> ~ chrome /\ ~ firefox /\ ~ safari /\ ~ edge /\ bot
          [] b = "Other" -> ~ chrome /\ ~ firefox /\ ~ safari /\ ~ edge /\ ~ bot

\* C6: every record's user agent is counted in exactly one of Chrome,
\* Firefox, Safari, Edge, Bot, Other, by the precedence Chrome, Firefox,
\* Safari, Edge, bot/crawler (any case), Other; a user agent with both
\* "Chrome" and "Safari" is counted as Chrome and never as Safari.
C6_BrowserPrecedence ==
    Analyzed =>
        /\ \A k \in 1..Len(metrics.browsers) : metrics.browsers[k][1] \in BrowserNames
        /\ \A k, l \in 1..Len(metrics.browsers) :
               metrics.browsers[k][1] = metrics.browsers[l][1] => k = l
        /\ \A b \in BrowserNames :
               CountOf(metrics.browsers, b) =
                   Cardinality({i \in 1..Len(records) :
                                   InClass(records[i]["user_agent"], b)})

\* a user agent with both tokens was counted, next to a Safari one
C6_Witness ==
    /\ Analyzed
    /\ \E i \in 1..Len(records) :
           /\ Contains(records[i]["user_agent"], S_Chrome)
           /\ Contains(records[i]["user_agent"], S_Safari)
    /\ \E i \in 1..Len(records) : records[i]["user_agent"] = S_Safari
    /\ CountOf(metrics.browsers, "Chrome") >= 1
    /\ CountOf(metrics.browsers, "Safari") >= 1

NoMidCookie(r) == MidPositions(r["cookie"], LowerHexOrDash) = {}

DistinctAddresses(recs) ==
    \A i, j \in 1..Len(recs) :
        recs[i]["client_ip"] = recs[j]["client_ip"] => i = j

\* C8: when the records have pairwise distinct client addresses and no
\* cookie carries a `mid=` id, unique_visitors equals total_requests.
C8_VisitorsEqualRequests ==
    (Analyzed /\ DistinctAddresses(records)
        /\ \A i \in 1..Len(records) : NoMidCookie(records[i]))
    => metrics.summary.unique_visitors = metrics.summary.total_requests

\* several records with distinct addresses and no id were analyzed
C8_Witness ==
    /\ Analyzed
    /\ Len(records) >= 3
    /\ DistinctAddresses(records)
    /\ \A i \in 1..Len(records) : NoMidCookie(records[i])
    /\ metrics.summary.unique_visitors = Len(records)

\* C10: the requests of the dates of daily_stats sum to total_requests, and
\* so do the counts of the browsers mapping.
C10_CountsConserved ==
    Analyzed =>
        /\ SumCounts([k \in 1..Len(metrics.daily_stats) |->
                         <<metrics.daily_stats[k][1],
                           metrics.daily_stats[k][2].requests>>])
               = metrics.summary.total_requests
        /\ SumCounts(metrics.browsers) = metrics.summary.total_requests
        /\ metrics.summary.total_requests = Len(records)

\* records that share a date and a browser class were analyzed, next to others
C10_Witness ==
    /\ Analyzed
    /\ Len(records) = 3
    /\ Len(metrics.daily_stats) = 2
    /\ Len(metrics.browsers) = 2

-----------------------------------------------------------------------------
(* analyze_logs on records of many paths *)

PagePath(i) == <<"/", "p", "/">> \o Decimal(i)

PageRecord(i) ==
    parse_log_line(MkLine(D_0229, DASH, IP_A, PagePath(i), S_200, DASH, DASH))

\* the records of the paths 1..NumPaths
PageRecords == [i \in 1..NumPaths |-> PageRecord(i)]

PathsOf(recs) == {recs[i]["uri_stem"] : i \in 1..Len(recs)}

InitTop ==
    /\ pc = "collect"
    /\ records = <<>>
    /\ fmt = "json"
    /\ metrics = None
    /\ output = None
    /\ ParserIdle
    /\ ResolverIdle
    /\ LoaderIdle

\* line 80: the record appended has the next path not yet seen (the paths
\* come in the order of their numbers), or one of the paths seen
LoadPage ==
    /\ pc = "collect"
    /\ LET seen == Cardinality(PathsOf(records))
       IN  \/ /\ seen < NumPaths
              /\ records' = Append(records, PageRecords[seen + 1])
           \/ /\ Len(records) - seen < MaxRepeats
              /\ \E j \in 1..seen : records' = Append(records, PageRecords[j])
    /\ UNCHANGED <<pc, line, parsed, record, visitor, entries, days, today,
                   cutoff_date, file_idx, line_idx, warnings, fmt, metrics,
                   output>>

NextTop ==
    \/ LoadPage
    \/ ReturnCollected
    \/ Analyze

SpecTop == InitTop /\ [][NextTop]_vars

\* the number of records of each path
Occurrences(recs) ==
    [p \in PathsOf(recs) |-> Cardinality({i \in 1..Len(recs) : recs[i]["uri_stem"] = p})]

\* the index of the first record of each path
FirstSeen(recs) ==
    [p \in PathsOf(recs) |->
        CHOOSE i \in 1..Len(recs) :
            /\ recs[i]["uri_stem"] = p
            /\ \A j \in 1..(i - 1) : recs[j]["uri_stem"] # p]

\* C7: top_pages is the first 15 entries of the per-path occurrence counts
\* sorted by descending count, ties in first-encountered order: it has at
\* most 15 entries and its counts do not increase.
C7_TopPages ==
    Analyzed =>
        LET top == metrics.top_pages
            paths == PathsOf(records)
            occ == Occurrences(records)
            first == FirstSeen(records)
            \* path p with count c ranks before path q with count d
            RanksBefore(p, c, q, d) == c > d \/ (c = d /\ first[p] < first[q])
        IN  /\ Len(top) = Min(15, Cardinality(paths))
            /\ Len(top) <= 15
            /\ \A i \in 1..Len(top) :
                   /\ top[i].path \in paths
                   /\ top[i].count = occ[top[i].path]
            /\ \A i, j \in 1..Len(top) :
                   i < j => /\ RanksBefore(top[i].path, top[i].count,
                                           top[j].path, top[j].count)
                            /\ top[i].count >= top[j].count
            /\ \A q \in paths \ {top[i].path : i \in 1..Len(top)} :
                   \A i \in 1..Len(top) :
                       RanksBefore(top[i].path, top[i].count, q, occ[q])

\* more than 15 paths were counted, a path seen late ranks first and a path
\* seen early is cut off
C7_Witness ==
    /\ Analyzed
    /\ Cardinality(PathsOf(records)) > 15
    /\ Len(metrics.top_pages) = 15
    /\ metrics.top_pages[1].path = PagePath(16)
    /\ metrics.top_pages[1].count = 2
    /\ metrics.top_pages[2].path = PagePath(1)
    /\ metrics.top_pages[2].count = metrics.top_pages[3].count

=============================================================================
